---- MODULE Spec2Model ----
(***************************************************************************)
(* Model of the file storage service of src/api/main.go: the four request  *)
(* handlers over one S3 bucket, and the bounded upload pipe of             *)
(* uploadFilesHandler (producer goroutine, io.Pipe, s3Uploader.Upload).    *)
(*                                                                         *)
(* Strings are sequences of one-character strings, bytes are integers, a   *)
(* file of n bytes has the content <<1, ..., n>> (so a lost, duplicated or *)
(* reordered byte changes the content).  The byte ceiling and the read     *)
(* buffer are scaled down from 50 MiB and 32 KiB to a few bytes; the       *)
(* comparisons on them are the source's.                                   *)
(***************************************************************************)
EXTENDS Integers, Sequences, FiniteSets, TLC

\* ------------------------------------------------------------- bounds
\* The ceiling of main.go:42 (maxFileSizeByte), scaled down to bytes.
maxFileSizeByte == 2
\* The read buffer of main.go:218 (32*1024), scaled down to bytes.
BufLen == 2
\* The largest number of file parts of one multipart request.
MaxFiles == 2
\* The number of upload sessions (uuid.New calls) of one run of the model.
MaxSessions == 2

\* The upload requests in flight (one handler goroutine each).
Requests == {"r1", "r2"}

\* File sizes: every size up to one byte above the ceiling.
Sizes == 0 .. (maxFileSizeByte + 1)

\* A part that is skipped or does not open is never read, so its size has no
\* effect: the model gives every such part the size above the ceiling.
UnreadSize == maxFileSizeByte + 1

\* The client behind the second request either uploads or lists, gets and
\* deletes: it does not do both in one run of the model.
OtherClient == "r2"

\* The names a multipart part can carry: none, or a name with a directory in
\* front of it (so that filepath.Base has something to remove).
Names == { <<>>, <<"d", "/", "a">> }

\* The content of a file of n bytes.
Content(n) == [j \in 1 .. n |-> j]

\* ------------------------------------------------------------- strings
Last(s) == s[Len(s)]

\* strings.HasSuffix(s, "/")
HasSuffixSlash(s) == Len(s) > 0 /\ Last(s) = "/"

RECURSIVE TrimSlashes(_)
TrimSlashes(s) ==
    IF Len(s) > 0 /\ Last(s) = "/" THEN TrimSlashes(SubSeq(s, 1, Len(s) - 1)) ELSE s

RECURSIVE AfterLastSlash(_, _)
AfterLastSlash(s, i) ==
    IF i = 0 THEN s
    ELSE IF s[i] = "/" THEN SubSeq(s, i + 1, Len(s))
    ELSE AfterLastSlash(s, i - 1)

\* filepath.Base: "." for the empty path, trailing separators removed, then
\* the last element; "/" for a path of separators only.
Base(path) ==
    IF Len(path) = 0 THEN <<".">>
    ELSE LET t == TrimSlashes(path) IN
         IF Len(t) = 0 THEN <<"/">> ELSE AfterLastSlash(t, Len(t))

\* The characters of the model's strings in byte order; a uuid is one token.
Alphabet == <<".", "/", "_", "a", "d", "n", "u1", "u2", "u3", "u4", "u5", "u6">>
Rank(c) == CHOOSE i \in 1 .. Len(Alphabet) : Alphabet[i] = c

\* uuid.New().String(): the k-th identifier drawn, as one token.
UuidString(k) == <<Alphabet[6 + k]>>

\* variant of UniqueFilename: the key is the base name alone
UniqueFilenameNoUuid(id, filename) == Base(filename)
\* fmt.Sprintf("%s_%s", uuid.New().String(), filepath.Base(fileHeader.Filename))
UniqueFilename(id, filename) == UuidString(id) \o <<"_">> \o Base(filename)

\* ------------------------------------------------------------- errors
SizeMsg == "exceeds the maximum allowed size of 50MB"

\* fmt.Errorf("file '%s' exceeds the maximum allowed size of %dMB", ...)
SizeError(filename) == <<"file '">> \o filename \o <<"' ", SizeMsg>>
\* a read error of the multipart file
ReadError == <<"read error">>
\* a failure of the backend (transport, credentials, service)
BackendError == <<"RequestError", "send request failed">>
\* the uploader reports a failed read of its body with the cause attached
WrapReadBody(cause) == <<"ReadRequestBody", "read upload data failed", "caused by: ">> \o cause

\* strings.Contains(err.Error(), "exceeds the maximum allowed size of 50MB")
ContainsSizeMsg(msg) == \E i \in 1 .. Len(msg) : msg[i] = SizeMsg

\* variant of UploadErrorStatus: the size error is not told apart
UploadErrorStatusAlways500(msg) == 500
\* the status uploadFilesHandler gives a failed s3Uploader.Upload
UploadErrorStatus(msg) == IF ContainsSizeMsg(msg) THEN 413 ELSE 500

VARIABLES
    bucket,     \* the S3 bucket: key -> content
    nextUuid,   \* the number of identifiers uuid.New has returned, plus one
    hs,         \* per request: the state of uploadFilesHandler
    prod,       \* per request and file: the producer goroutine
    pipe,       \* per request and file: the io.Pipe
    resp        \* the last response of the list, get or delete handler

\* hs[r]: pc (idle, loop: at the head of the range loop, upload: inside
\*   s3Uploader.Upload, done: returned), nfiles and idx (len(files) and the
\*   loop index), files (the parts met so far), key (uniqueFilename), recv
\*   (the bytes the uploader has read), uploaded (uploadedFilenames), status
\*   and err (the response), keyOf (part index -> key minted for it).
\* prod[r][i]: pc (idle, read, write: inside pw.Write, return: the deferred
\*   Close is to run, done), currentSize, readErr (nil, EOF, err), written
\*   (the bytes handed to pw.Write so far).
\* pipe[r][i]: data (the rest of the chunk being written), closed and err
\*   (what the write end was closed with; <<>> is io.EOF).
\* resp: op, key, status, body; contents (the ListObjectsV2 result of a list
\*   or, for a delete, the listing before it), disposition, length, copied
\*   (io.Copy reached the end), ok (the backend was available).

vars == <<bucket, nextUuid, hs, prod, pipe, resp>>

\* ------------------------------------------------------------- initial state
\* A key that no upload mints and that is never stored.
AbsentKey == <<"n">>
\* A directory marker, as bucket browsers create them.
MarkerKey == <<"d", "/">>

IdleProducer == [pc |-> "idle", currentSize |-> 0, readErr |-> "nil", written |-> 0]
NoPipe == [data |-> <<>>, closed |-> FALSE, err |-> <<>>]
NoResp == [op |-> "none", key |-> <<>>, status |-> 0, body |-> <<>>, contents |-> <<>>,
           disposition |-> <<>>, length |-> 0, copied |-> FALSE, ok |-> FALSE]

Init ==
    /\ bucket = (MarkerKey :> <<>>)
    /\ nextUuid = 1
    /\ hs = [r \in Requests |->
                [pc |-> "idle", nfiles |-> 0, files |-> <<>>, idx |-> 0, key |-> <<>>,
                 recv |-> <<>>, uploaded |-> <<>>, keyOf |-> <<>>, status |-> 0,
                 err |-> <<>>]]
    /\ prod = [r \in Requests |-> [i \in 1 .. MaxFiles |-> IdleProducer]]
    /\ pipe = [r \in Requests |-> [i \in 1 .. MaxFiles |-> NoPipe]]
    /\ resp = NoResp

\* ------------------------------------------------------------- io.Pipe
\* pw.Close(): the reader sees io.EOF; the first close of a pipe wins.
Close(p) == IF p.closed THEN p ELSE [p EXCEPT !.closed = TRUE, !.err = <<>>]

\* pw.CloseWithError(e): the reader sees e; the first close of a pipe wins.
CloseWithError(p, e) == IF p.closed THEN p ELSE [p EXCEPT !.closed = TRUE, !.err = e]

\* ------------------------------------------------------------- producer goroutine
\* variant of Exceeds: no ceiling check
ExceedsNever(currentSize) == FALSE
\* currentSize > maxFileSizeByte
Exceeds(currentSize) == currentSize > maxFileSizeByte

\* variant of Chunk: buf[:n-1]
ChunkShort(size, currentSize, n) == SubSeq(Content(size), currentSize - n + 1, currentSize - 1)
\* buf[:n] after a read that took the counter to currentSize
Chunk(size, currentSize, n) == SubSeq(Content(size), currentSize - n + 1, currentSize)

\* variant of SizeExceededClose: the pipe is closed without the error
SizeExceededCloseEOF(p, filename) == Close(p)
\* pw.CloseWithError(fmt.Errorf("file '%s' exceeds ...")) on the ceiling
SizeExceededClose(p, filename) == CloseWithError(p, SizeError(filename))

\* What the loop does with readErr once the chunk (if any) is written:
\* io.EOF breaks out of the loop and the deferred pw.Close() ends the
\* goroutine; another error closes the pipe with it and returns (the deferred
\* Close is still to run); nil reads on.
AfterChunk(r, i, p, q) ==
    IF p.readErr = "EOF" THEN
        /\ prod' = [prod EXCEPT ![r][i] = [p EXCEPT !.pc = "done"]]
        /\ pipe' = [pipe EXCEPT ![r][i] = Close(q)]
    ELSE IF p.readErr = "err" THEN
        /\ prod' = [prod EXCEPT ![r][i] = [p EXCEPT !.pc = "return"]]
        /\ pipe' = [pipe EXCEPT ![r][i] = CloseWithError(q, ReadError)]
    ELSE
        /\ prod' = [prod EXCEPT ![r][i] = [p EXCEPT !.pc = "read"]]
        /\ pipe' = [pipe EXCEPT ![r][i] = q]

\* n, readErr := file.Read(buf), the counter, the ceiling check and the start
\* of pw.Write(buf[:n]).  A read returns up to BufLen of the remaining bytes,
\* with io.EOF only when none remain after it, or with a read error.
ProducerRead(r, i) ==
    /\ prod[r][i].pc = "read"
    /\ LET p == prod[r][i]
           f == hs[r].files[i]
           remaining == f.size - p.currentSize
           most == IF remaining < BufLen THEN remaining ELSE BufLen
       IN \E n \in 0 .. most, e \in {"nil", "EOF", "err"} :
            /\ e = "EOF" => n = remaining
            /\ e = "nil" => n > 0
            /\ LET p1 == [p EXCEPT !.currentSize = p.currentSize + n, !.readErr = e]
               IN IF n > 0 /\ Exceeds(p1.currentSize) THEN
                      /\ prod' = [prod EXCEPT ![r][i] = [p1 EXCEPT !.pc = "return"]]
                      /\ pipe' = [pipe EXCEPT ![r][i] = SizeExceededClose(pipe[r][i], f.name)]
                  ELSE IF n > 0 THEN
                      /\ prod' = [prod EXCEPT ![r][i] =
                                    [p1 EXCEPT !.pc = "write", !.written = p.written + n]]
                      /\ pipe' = [pipe EXCEPT ![r][i].data = Chunk(f.size, p1.currentSize, n)]
                  ELSE AfterChunk(r, i, p1, pipe[r][i])
    /\ UNCHANGED <<bucket, nextUuid, hs, resp>>

\* pw.Write(buf[:n]) returns once the reader has taken the whole chunk.  (It
\* returns an error only when the read end is closed, which no code does.)
ProducerWritten(r, i) ==
    /\ prod[r][i].pc = "write"
    /\ pipe[r][i].data = <<>>
    /\ AfterChunk(r, i, prod[r][i], pipe[r][i])
    /\ UNCHANGED <<bucket, nextUuid, hs, resp>>

\* the deferred pw.Close() after a return out of the loop
ProducerReturn(r, i) ==
    /\ prod[r][i].pc = "return"
    /\ prod' = [prod EXCEPT ![r][i].pc = "done"]
    /\ pipe' = [pipe EXCEPT ![r][i] = Close(pipe[r][i])]
    /\ UNCHANGED <<bucket, nextUuid, hs, resp>>

\* ------------------------------------------------------------- uploadFilesHandler
\* The file parts of a request (fileHeader.Filename and the bytes behind it).
\* A part is drawn when the range loop reaches it.
FileHeaders == [name : Names, size : Sizes]
NamedFileHeaders == {f \in FileHeaders : f.name # <<>>}
UnnamedFileHeaders == {f \in FileHeaders : f.name = <<>> /\ f.size = UnreadSize}
UnopenedFileHeaders == {f \in NamedFileHeaders : f.size = UnreadSize}

\* variant of Fail: the loop goes on to the next part instead of returning
FailAndContinue(h, status, err) ==
    [h EXCEPT !.pc = "loop", !.idx = @ + 1, !.status = status, !.err = err, !.recv = <<>>]
\* return echo.NewHTTPError(status, ...): the handler is over
Fail(h, status, err) ==
    [h EXCEPT !.pc = "done", !.status = status, !.err = err, !.recv = <<>>]

\* c.MultipartForm() and form.File["files"]: 400 on a form that does not
\* parse and on no file part.
UploadStart(r) ==
    /\ hs[r].pc = "idle"
    /\ r = OtherClient => resp = NoResp
    /\ \E parses \in BOOLEAN, nfiles \in 0 .. MaxFiles :
         hs' = [hs EXCEPT ![r] =
                  IF ~parses THEN Fail(@, 400, <<"Failed to parse multipart form">>)
                  ELSE IF nfiles = 0 THEN Fail(@, 400, <<"No files provided for upload.">>)
                  ELSE [@ EXCEPT !.pc = "loop", !.nfiles = nfiles, !.idx = 1]]
    /\ UNCHANGED <<bucket, nextUuid, prod, pipe, resp>>

\* the range loop is over: 201 with the keys uploaded
UploadFinish(r) ==
    /\ hs[r].pc = "loop"
    /\ hs[r].idx > hs[r].nfiles
    /\ hs' = [hs EXCEPT ![r].pc = "done", ![r].status = 201]
    /\ UNCHANGED <<bucket, nextUuid, prod, pipe, resp>>

\* a part without a filename is logged and skipped
SkipUnnamed(r) ==
    /\ hs[r].pc = "loop"
    /\ hs[r].idx <= hs[r].nfiles
    /\ \E f \in UnnamedFileHeaders :
         hs' = [hs EXCEPT ![r].idx = @ + 1, ![r].files = Append(@, f)]
    /\ UNCHANGED <<bucket, nextUuid, prod, pipe, resp>>

\* fileHeader.Open() fails: 500
OpenFails(r) ==
    /\ hs[r].pc = "loop"
    /\ hs[r].idx <= hs[r].nfiles
    /\ \E f \in UnopenedFileHeaders :
         hs' = [hs EXCEPT ![r] =
                  Fail([@ EXCEPT !.files = Append(@, f)], 500, <<"Could not open file">>)]
    /\ UNCHANGED <<bucket, nextUuid, prod, pipe, resp>>

\* variant of SessionToStart: the loop does not wait for s3Uploader.Upload
SessionToStartUnawaited(h) ==
    IF h.pc = "loop" /\ h.idx <= h.nfiles THEN {h.idx}
    ELSE IF h.pc = "upload" /\ h.idx < h.nfiles THEN {h.idx + 1}
    ELSE {}
\* The part the range loop may open next: the one at idx, once the handler is
\* back at the head of the loop (s3Uploader.Upload is called synchronously, so
\* the part before has been dealt with).
SessionToStart(h) == IF h.pc = "loop" /\ h.idx <= h.nfiles THEN {h.idx} ELSE {}

\* the file opens: the key is minted, the pipe made, the producer started and
\* s3Uploader.Upload called with the read end as its body
StartSession(r) ==
    /\ nextUuid <= MaxSessions
    /\ \E i \in SessionToStart(hs[r]), f \in NamedFileHeaders :
         LET key == UniqueFilename(nextUuid, f.name)
         IN /\ hs' = [hs EXCEPT ![r].pc = "upload", ![r].idx = i, ![r].key = key,
                                ![r].recv = <<>>,
                                ![r].files = Append(@, f),
                                ![r].keyOf = (i :> key) @@ @]
            /\ prod' = [prod EXCEPT ![r][i] = [IdleProducer EXCEPT !.pc = "read"]]
            /\ pipe' = [pipe EXCEPT ![r][i] = NoPipe]
    /\ nextUuid' = nextUuid + 1
    /\ UNCHANGED <<bucket, resp>>

\* ------------------------------------------------------------- s3Uploader.Upload
\* the uploader reads some of the bytes the producer is writing
PutRead(r) ==
    /\ hs[r].pc = "upload"
    /\ LET i == hs[r].idx
           d == pipe[r][i].data
       IN /\ d # <<>>
          /\ \E k \in 1 .. Len(d) :
               /\ hs' = [hs EXCEPT ![r].recv = @ \o SubSeq(d, 1, k)]
               /\ pipe' = [pipe EXCEPT ![r][i].data = SubSeq(d, k + 1, Len(d))]
    /\ UNCHANGED <<bucket, nextUuid, prod, resp>>

\* PutObject / CompleteMultipartUpload: the object is the body read
PutObject(b, key, body) == (key :> body) @@ b

\* the uploader reads io.EOF and the backend accepts the object: Upload
\* returns nil, the key is appended and the loop goes on
PutComplete(r) ==
    /\ hs[r].pc = "upload"
    /\ LET q == pipe[r][hs[r].idx]
       IN q.data = <<>> /\ q.closed /\ q.err = <<>>
    /\ bucket' = PutObject(bucket, hs[r].key, hs[r].recv)
    /\ hs' = [hs EXCEPT ![r].pc = "loop", ![r].idx = @ + 1, ![r].recv = <<>>,
                        ![r].uploaded = Append(@, hs[r].key)]
    /\ UNCHANGED <<nextUuid, prod, pipe, resp>>

\* the uploader reads the error the producer closed the pipe with: Upload
\* returns it wrapped, no object is made, and the handler returns 413 or 500
PutAborted(r) ==
    /\ hs[r].pc = "upload"
    /\ LET q == pipe[r][hs[r].idx]
       IN /\ q.data = <<>> /\ q.closed /\ q.err # <<>>
          /\ hs' = [hs EXCEPT ![r] =
                      Fail(@, UploadErrorStatus(WrapReadBody(q.err)), WrapReadBody(q.err))]
    /\ UNCHANGED <<bucket, nextUuid, prod, pipe, resp>>

\* the backend fails: Upload returns the error, no object is made, and the
\* handler returns 500 without closing the read end of the pipe.  (The
\* uploader reads a part of the body ahead of each backend call; the model
\* lets the failure come after any number of bytes read.)
PutFails(r) ==
    /\ hs[r].pc = "upload"
    /\ hs' = [hs EXCEPT ![r] = Fail(@, UploadErrorStatus(BackendError), BackendError)]
    /\ UNCHANGED <<bucket, nextUuid, prod, pipe, resp>>

\* ------------------------------------------------------------- the backend's listing
RECURSIVE LexLess(_, _)
\* byte order of two keys
LexLess(s, t) ==
    IF Len(t) = 0 THEN FALSE
    ELSE IF Len(s) = 0 THEN TRUE
    ELSE IF s[1] # t[1] THEN Rank(s[1]) < Rank(t[1])
    ELSE LexLess(Tail(s), Tail(t))

RECURSIVE InKeyOrder(_)
InKeyOrder(S) ==
    IF S = {} THEN <<>>
    ELSE LET least == CHOOSE k \in S : \A o \in S \ {k} : LexLess(k, o)
         IN <<least>> \o InKeyOrder(S \ {least})

\* s3Client.ListObjectsV2: result.Contents, the keys of the bucket in byte order
ListObjectsV2(b) == InKeyOrder(DOMAIN b)

\* s3Client.GetObject finds the key (else it fails with NoSuchKey)
HasObject(b, key) == key \in DOMAIN b

\* variant of DeleteObject: a key that is not there is an error
DeleteObjectStrict(b, key, ok) ==
    IF ok /\ key \in DOMAIN b
    THEN [bucket |-> [k \in DOMAIN b \ {key} |-> b[k]], failed |-> FALSE]
    ELSE [bucket |-> b, failed |-> TRUE]
\* s3Client.DeleteObject: the bucket after the call and whether it returned an
\* error.  With the backend available the key is gone afterwards, and a key
\* that is not there is no error.
DeleteObject(b, key, ok) ==
    IF ok THEN [bucket |-> [k \in DOMAIN b \ {key} |-> b[k]], failed |-> FALSE]
    ELSE [bucket |-> b, failed |-> TRUE]

\* ------------------------------------------------------------- listFilesHandler
\* variant of IsFileKey: no key is left out
IsFileKeyAlways(key) == TRUE
\* obj.Key != nil && !strings.HasSuffix(*obj.Key, "/")
IsFileKey(key) == ~HasSuffixSlash(key)

\* FileInfo{Filename: key, Path: "/files/" + key} (the time is left out)
FileInfoOf(key) == [Filename |-> key, Path |-> <<"/", "f", "i", "l", "e", "s", "/">> \o key]

RECURSIVE FilesOf(_)
\* the range loop over result.Contents
FilesOf(contents) ==
    IF contents = <<>> THEN <<>>
    ELSE (IF IsFileKey(Head(contents)) THEN <<FileInfoOf(Head(contents))>> ELSE <<>>)
         \o FilesOf(Tail(contents))

\* The other client's requests are made only while it is not an uploader.
ClientTurn == hs[OtherClient].pc = "idle"

\* The filenames a client can name: the keys it can have seen in a listing or
\* in an upload's response, and one that was never stored.  (A key that was
\* minted but not stored yet is known to nobody.)
EverStored == {MarkerKey} \cup UNION {{hs[r].uploaded[j] : j \in 1 .. Len(hs[r].uploaded)} : r \in Requests}
ClientKeys == EverStored \cup {AbsentKey}

ListFilesHandler ==
    /\ ClientTurn
    /\ \E ok \in BOOLEAN :
         resp' = IF ok
                 THEN [NoResp EXCEPT !.op = "list", !.status = 200, !.ok = TRUE,
                                     !.contents = ListObjectsV2(bucket),
                                     !.body = FilesOf(ListObjectsV2(bucket))]
                 ELSE [NoResp EXCEPT !.op = "list", !.status = 500]
    /\ UNCHANGED <<bucket, nextUuid, hs, prod, pipe>>

\* ------------------------------------------------------------- getFileHandler
\* 500 on a backend failure, 404 on NoSuchKey; else the headers and io.Copy,
\* which may fail after any number of bytes (the failure is only logged).
GetFileHandler ==
    /\ ClientTurn
    /\ \E key \in ClientKeys, ok \in BOOLEAN :
         IF ~ok THEN resp' = [NoResp EXCEPT !.op = "get", !.key = key, !.status = 500]
         ELSE IF ~HasObject(bucket, key)
         THEN resp' = [NoResp EXCEPT !.op = "get", !.key = key, !.status = 404, !.ok = TRUE]
         ELSE \E m \in 0 .. Len(bucket[key]) :
                resp' = [NoResp EXCEPT !.op = "get", !.key = key, !.status = 200, !.ok = TRUE,
                                       !.disposition = key,
                                       !.length = Len(bucket[key]),
                                       !.body = SubSeq(bucket[key], 1, m),
                                       !.copied = (m = Len(bucket[key]))]
    /\ UNCHANGED <<bucket, nextUuid, hs, prod, pipe>>

\* ------------------------------------------------------------- deleteFileHandler
\* 500 on a backend failure, else 204 (DeleteObject does not fail on a key
\* that is not there).  contents records the listing before the call.
DeleteFileHandler ==
    /\ ClientTurn
    /\ \E key \in ClientKeys, ok \in BOOLEAN :
         LET out == DeleteObject(bucket, key, ok)
         IN /\ bucket' = out.bucket
            /\ resp' = [NoResp EXCEPT !.op = "delete", !.key = key, !.ok = ok,
                                      !.status = IF out.failed THEN 500 ELSE 204,
                                      !.contents = ListObjectsV2(bucket)]
    /\ UNCHANGED <<nextUuid, hs, prod, pipe>>

Upload ==
    \E r \in Requests :
        \/ UploadStart(r)
        \/ UploadFinish(r)
        \/ SkipUnnamed(r)
        \/ OpenFails(r)
        \/ StartSession(r)
        \/ PutRead(r)
        \/ PutComplete(r)
        \/ PutAborted(r)
        \/ PutFails(r)
        \/ \E i \in 1 .. MaxFiles :
            \/ ProducerRead(r, i)
            \/ ProducerWritten(r, i)
            \/ ProducerReturn(r, i)

Next ==
    \/ Upload
    \/ ListFilesHandler
    \/ GetFileHandler
    \/ DeleteFileHandler

Spec == Init /\ [][Next]_vars


\* ------------------------------------------------------------- properties
\* the parts of request r for which an upload session was started
Started(r) == DOMAIN hs[r].keyOf
Oversized(r, i) == hs[r].files[i].size > maxFileSizeByte
Running(p) == p.pc \in {"read", "write", "return"}

\* C1: for every upload session whose file has more bytes than the ceiling,
\* the bucket holds no object under the session's key, at any time.
C1_NoOversizedObject ==
    \A r \in Requests : \A i \in Started(r) :
        Oversized(r, i) => hs[r].keyOf[i] \notin DOMAIN bucket

\* an oversized file was streamed up to the ceiling and its request has failed
C1_Witness ==
    \E r \in Requests : \E i \in Started(r) :
        /\ Oversized(r, i)
        /\ prod[r][i].written > 0
        /\ hs[r].pc = "done" /\ hs[r].status = 413

\* C2: when an upload has returned 201, every key it returned that is still
\* stored holds exactly the bytes of its file, and a get of such a key that
\* answers 200 and streams to the end returns exactly those bytes.
C2_RoundTrip ==
    \A r \in Requests :
        (hs[r].pc = "done" /\ hs[r].status = 201) =>
            \A i \in Started(r) :
                LET k == hs[r].keyOf[i]
                    bytes == Content(hs[r].files[i].size)
                IN /\ hs[r].files[i].size <= maxFileSizeByte
                   /\ k \in DOMAIN bucket => bucket[k] = bytes
                   /\ (resp.op = "get" /\ resp.key = k /\ resp.status = 200 /\ resp.copied)
                        => (resp.body = bytes /\ resp.length = Len(bytes))

\* a file of exactly the ceiling size was uploaded with 201 and read back
C2_Witness ==
    \E r \in Requests : \E i \in Started(r) :
        /\ hs[r].pc = "done" /\ hs[r].status = 201
        /\ hs[r].files[i].size = maxFileSizeByte
        /\ resp.op = "get" /\ resp.key = hs[r].keyOf[i]
        /\ resp.status = 200 /\ resp.copied

\* C3 as stated: a request that holds a part above the ceiling ends with 413.
C3_AnyOversizedPart413 ==
    \A r \in Requests :
        (hs[r].pc = "done" /\ \E i \in 1 .. Len(hs[r].files) : Oversized(r, i))
            => hs[r].status = 413

\* C3 as amended: a request whose opened part exceeds the ceiling never
\* succeeds; it ends with 413 unless a source read error or a backend failure
\* ended that part's upload first (then 500); and 413 is given for nothing else.
C3_OpenedOversizedPart413 ==
    \A r \in Requests :
        hs[r].pc = "done" =>
            LET i == hs[r].idx IN
            /\ \A j \in Started(r) : Oversized(r, j) => (j = i /\ hs[r].status \in {413, 500})
            /\ (i \in Started(r) /\ Oversized(r, i) /\ hs[r].err # BackendError
                    /\ prod[r][i].readErr # "err") => hs[r].status = 413
            /\ hs[r].status = 413 => (i \in Started(r) /\ Oversized(r, i))

\* a request has ended with 413
C3_Witness ==
    \E r \in Requests :
        /\ hs[r].pc = "done" /\ hs[r].status = 413
        /\ hs[r].idx \in Started(r) /\ Oversized(r, hs[r].idx)

\* C4: the return with 413 changes nothing in the bucket (no compensating
\* delete, no object for the failing file), a returned handler does nothing
\* more, no session is started past a failed one, the keys of the files
\* before the failing one are the ones reported uploaded, and only a delete
\* request removes or changes an object.
C4_NotTransactional ==
    [][\A r \in Requests :
        /\ (hs[r].pc = "upload" /\ hs'[r].pc = "done" /\ hs'[r].status = 413) =>
              (bucket' = bucket /\ hs'[r].uploaded = hs[r].uploaded
               /\ hs'[r].key \notin DOMAIN bucket')
        /\ hs[r].pc = "done" => hs'[r] = hs[r]
        /\ \A i \in DOMAIN hs'[r].keyOf :
              /\ i <= hs'[r].idx
              /\ i < hs'[r].idx =>
                    (pipe'[r][i].err = <<>>
                     /\ \E j \in 1 .. Len(hs'[r].uploaded) : hs'[r].uploaded[j] = hs'[r].keyOf[i])
        /\ (hs'[r].pc = "done" /\ hs'[r].status = 413) =>
              /\ hs'[r].idx \in DOMAIN hs'[r].keyOf
              /\ hs'[r].keyOf[hs'[r].idx] \notin DOMAIN bucket'
              /\ \A j \in 1 .. Len(hs'[r].uploaded) : hs'[r].uploaded[j] # hs'[r].keyOf[hs'[r].idx]
        /\ \A k \in DOMAIN bucket :
              (k \notin DOMAIN bucket' \/ bucket'[k] # bucket[k]) =>
                  (resp'.op = "delete" /\ resp'.key = k /\ resp'.status = 204)
      ]_vars

\* the second file of a request failed with 413 and the first one is stored
C4_Witness ==
    \E r \in Requests :
        /\ hs[r].pc = "done" /\ hs[r].status = 413
        /\ Len(hs[r].uploaded) >= 1
        /\ hs[r].uploaded[1] \in DOMAIN bucket

\* C5: any two upload sessions have distinct keys, a minted key is not the
\* key of an object stored now or before, no object's content is ever
\* replaced, and each successful upload adds exactly one new key.
C5_UniqueKeys ==
    [][/\ \A r1, r2 \in Requests :
            \A i1 \in DOMAIN hs'[r1].keyOf, i2 \in DOMAIN hs'[r2].keyOf :
                (r1 # r2 \/ i1 # i2) => hs'[r1].keyOf[i1] # hs'[r2].keyOf[i2]
       /\ \A r \in Requests : \A i \in DOMAIN hs'[r].keyOf \ DOMAIN hs[r].keyOf :
            hs'[r].keyOf[i] \notin (DOMAIN bucket \cup EverStored)
       /\ \A r \in Requests :
            Len(hs'[r].uploaded) # Len(hs[r].uploaded) =>
                LET k == Last(hs'[r].uploaded)
                IN /\ Len(hs'[r].uploaded) = Len(hs[r].uploaded) + 1
                   /\ k \notin DOMAIN bucket
                   /\ DOMAIN bucket' = DOMAIN bucket \cup {k}
       /\ \A k \in DOMAIN bucket \cap DOMAIN bucket' : bucket'[k] = bucket[k]
      ]_vars

\* two concurrent requests have each stored a file of the same name
C5_Witness ==
    \E r1, r2 \in Requests :
        /\ r1 # r2
        /\ Len(hs[r1].uploaded) >= 1 /\ Len(hs[r2].uploaded) >= 1
        /\ hs[r1].files[CHOOSE i \in Started(r1) : TRUE].name
             = hs[r2].files[CHOOSE i \in Started(r2) : TRUE].name
        /\ hs[r1].uploaded[1] \in DOMAIN bucket
        /\ hs[r2].uploaded[1] \in DOMAIN bucket

\* the keys that were stored and are stored no more
Removed == EverStored \ DOMAIN bucket

\* C6: with the backend available a delete answers 204 and its key is not
\* stored afterwards; if the key was not stored the bucket is unchanged; a key
\* that was removed is never stored again, whatever other requests do; and a
\* get of a key that is not stored answers 404.
C6_DeleteThenGet ==
    [][/\ (resp' # resp /\ resp'.op = "delete" /\ resp'.ok) =>
            /\ resp'.status = 204
            /\ resp'.key \notin DOMAIN bucket'
            /\ resp'.key \notin DOMAIN bucket => bucket' = bucket
       /\ \A k \in Removed : k \notin DOMAIN bucket'
       /\ (resp'.op = "get" /\ resp'.ok /\ resp'.key \notin DOMAIN bucket') =>
            resp'.status = 404
      ]_vars

\* an uploaded key was deleted, and the get after it answered 404
C6_Witness ==
    /\ resp.op = "get" /\ resp.status = 404
    /\ resp.key \in Removed
    /\ \E r \in Requests : \E j \in 1 .. Len(hs[r].uploaded) : hs[r].uploaded[j] = resp.key

RECURSIVE IsSubsequence(_, _)
IsSubsequence(a, b) ==
    IF a = <<>> THEN TRUE
    ELSE IF b = <<>> THEN FALSE
    ELSE IF Head(a) = Head(b) THEN IsSubsequence(Tail(a), Tail(b))
    ELSE IsSubsequence(a, Tail(b))

\* C7: a listing that answers 200 holds no key that ends in "/", and its
\* entries are keys of the backend's listing, in the backend's order.
C7_ListExcludesMarkers ==
    (resp.op = "list" /\ resp.status = 200) =>
        /\ \A j \in 1 .. Len(resp.body) :
              LET name == resp.body[j].Filename
              IN name[Len(name)] # "/"
        /\ IsSubsequence([j \in 1 .. Len(resp.body) |-> resp.body[j].Filename], resp.contents)

\* a listing of a bucket that holds a directory marker and an uploaded file
C7_Witness ==
    /\ resp.op = "list" /\ resp.status = 200
    /\ \E j \in 1 .. Len(resp.contents) : resp.contents[j] = MarkerKey
    /\ Len(resp.body) >= 1

\* C8: the bytes a producer has written into its pipe never exceed the
\* ceiling (nor its counter); the read that takes the counter above the
\* ceiling writes nothing and closes the pipe with the size error; and from
\* then on the producer neither reads nor writes.
C8_CeilingGuard ==
    [][\A r \in Requests : \A i \in 1 .. MaxFiles :
        LET p == prod[r][i]
            p2 == prod'[r][i]
        IN /\ p2.written <= maxFileSizeByte
           /\ p2.written <= p2.currentSize
           /\ (p.currentSize <= maxFileSizeByte /\ p2.currentSize > maxFileSizeByte) =>
                 /\ p2.written = p.written
                 /\ p2.pc = "return"
                 /\ pipe'[r][i].data = <<>>
                 /\ pipe'[r][i].closed
                 /\ ContainsSizeMsg(pipe'[r][i].err)
           /\ p.currentSize > maxFileSizeByte =>
                 /\ p2.currentSize = p.currentSize
                 /\ p2.written = p.written
                 /\ p2.pc \in {"return", "done"}
                 /\ pipe'[r][i] = pipe[r][i]
      ]_vars

\* a producer stopped at the ceiling after it had written some bytes
C8_Witness ==
    \E r \in Requests : \E i \in 1 .. MaxFiles :
        /\ prod[r][i].currentSize > maxFileSizeByte
        /\ prod[r][i].written > 0
        /\ pipe[r][i].closed /\ ContainsSizeMsg(pipe[r][i].err)

\* C9: a request has at most one running producer, while it uploads only the
\* producer of the current part can run, the sessions of a request are
\* started in the order of its parts, and when a later session has been
\* started the producer of every earlier one has closed its pipe and ended.
C9_OneSessionAtATime ==
    \A r \in Requests :
        /\ Cardinality({i \in 1 .. MaxFiles : Running(prod[r][i])}) <= 1
        /\ \A i \in 1 .. MaxFiles : Running(prod[r][i]) => i = hs[r].idx
        /\ \A i, j \in Started(r) :
              i < j => (prod[r][i].pc = "done" /\ pipe[r][i].closed
                        /\ LexLess(hs[r].keyOf[i], hs[r].keyOf[j]))
        /\ \A i \in Started(r) : i <= hs[r].idx

\* the producer of a request's second session runs
C9_Witness ==
    \E r \in Requests : \E i, j \in Started(r) :
        i < j /\ prod[r][j].pc = "write"

\* C10: no producer is left in a write to a pipe that nothing reads any more,
\* its handler having returned (such a producer never ends).
C10_NoProducerBlockedForever ==
    \A r \in Requests : \A i \in 1 .. MaxFiles :
        ~(hs[r].pc = "done" /\ prod[r][i].pc = "write" /\ pipe[r][i].data # <<>>)

====
